---- MODULE Spec2Model ----
(***************************************************************************)
(* texpect: the LineWatcher (dispatcher + one tailer goroutine per         *)
(* registered log file, all sending on one unbuffered channel) and the     *)
(* Lua API built on it (spawn/AddFilePath, expect, expectAny, sleep).      *)
(* Model of src/main.go.                                                   *)
(***************************************************************************)
EXTENDS Integers, Sequences, FiniteSets, TLC

VARIABLES
    file,        \* path -> bytes of the log file (append-only, written by tmux pipe-pane)
    dispPc,      \* the watchLatestLine goroutine: "notrunning" | "running"
    tailers,     \* sequence of watchFileLines goroutines, in the order they were started
    sendq,       \* tailer ids blocked in `l.recvLineCh <- ...`, in arrival order
    piped,       \* paths whose tmux window exists, piped to the log file (`cat >> path`)
    prog,        \* the Lua script being run: an index in Scripts
    ip,          \* index of the call in progress or last completed (0: none)
    scriptPc,    \* the Lua script flow: "idle" | "create" | "addfile" | "wait" | "sleep"
    timer,       \* timeoutCh: "off" | "armed" | "fired"
    parked,      \* the script goroutine is parked in the select of a wait
    ret,         \* <<>> while no value was pushed, <<v>> after the call returned v
    ctxDone,     \* the context given to NewLineWatcher (l.ctx) has been cancelled
    fault,       \* what the file system refuses in this run: [tid, kind]
    delivered    \* history: every line received from GetLineCh(), in order

vars == <<file, dispPc, tailers, sendq, piped, prog, ip, scriptPc, timer, parked, ret,
          ctxDone, fault, delivered>>

(***************************************************************************)
(* Bounds                                                                  *)
(***************************************************************************)
MaxBytes == 5
MaxBytesShort == 3

Paths == {"p1", "p2"}

(***************************************************************************)
(* Bytes.  ESC is 0x1b, LF is '\n'; "a", "b", "m" are letters, "1" a digit. *)
(***************************************************************************)
ESC == "ESC"
LF == "LF"
LetterBytes == {"a", "b", "m"}
ParamBytes == {"1", ";", "?"}

\* What the sessions write to their log files: the file of path p is always
\* a prefix of one of the byte sequences FileScripts(p).
FileScripts(p) ==
    IF p = "p1"
    THEN { <<"a", LF, "b", LF, "a", "b", LF>>,
           <<ESC, "[", "m", "b", LF, "a", LF>> }
    ELSE { <<"a", "b", LF, "b", LF, "a", LF>>,
           <<LF, "b", LF, "a", LF, "b", LF>> }

(***************************************************************************)
(* 64-bit signed integers as 8 little-endian limbs of 8 bits.              *)
(***************************************************************************)
Int64(n) == [i \in 1..8 |-> IF i = 1 THEN n % 256
                            ELSE IF i = 2 THEN (n \div 256) % 256
                            ELSE IF i = 3 THEN (n \div 65536) % 256
                            ELSE 0]

\* math.MaxInt on a 64-bit platform: 2^63 - 1
MathMaxInt == [i \in 1..8 |-> IF i = 8 THEN 127 ELSE 255]

\* time.Second = 1000000000 ns = 0x3B9ACA00
TimeSecond == [i \in 1..8 |-> IF i = 1 THEN 0
                              ELSE IF i = 2 THEN 202
                              ELSE IF i = 3 THEN 154
                              ELSE IF i = 4 THEN 59
                              ELSE 0]

RECURSIVE ColSum(_, _, _, _)
ColSum(x, y, k, i) ==
    IF i > k THEN 0 ELSE x[i] * y[k - i + 1] + ColSum(x, y, k, i + 1)

RECURSIVE MulRaw(_, _, _)
MulRaw(x, y, k) ==
    ColSum(x, y, k, 1) + (IF k = 1 THEN 0 ELSE MulRaw(x, y, k - 1) \div 256)

\* x * y on int64: the product modulo 2^64
Mul64(x, y) == [k \in 1..8 |-> MulRaw(x, y, k) % 256]

\* d > 0 for a two's-complement int64
Positive64(d) == d[8] < 128 /\ \E i \in 1..8 : d[i] # 0

\* time.Duration(timeout) * time.Second
DurationOf(timeout) == Mul64(timeout, TimeSecond)

\* (mutant) a duration of zero or less taken as "no timer"
TimeAfterNoTimerAtZero(d) == IF Positive64(d) THEN "armed" ELSE "off"

\* time.After(d): the channel is ready at once when d <= 0
TimeAfter(d) == IF Positive64(d) THEN "armed" ELSE "fired"


(***************************************************************************)
(* removeANSIEscapeSequences: ReplaceAllString of \x1b\[[0-9;?]*[A-Za-z]   *)
(***************************************************************************)
RECURSIVE ParamEnd(_, _)
ParamEnd(s, j) ==
    IF j <= Len(s) /\ s[j] \in ParamBytes THEN ParamEnd(s, j + 1) ELSE j

\* index of the last byte of a match starting at i, or 0
MatchEnd(s, i) ==
    IF s[i] = ESC /\ i + 1 <= Len(s) /\ s[i + 1] = "["
    THEN LET k == ParamEnd(s, i + 2)
         IN  IF k <= Len(s) /\ s[k] \in LetterBytes THEN k ELSE 0
    ELSE 0

RECURSIVE StripFrom(_, _)
StripFrom(s, i) ==
    IF i > Len(s) THEN <<>>
    ELSE LET e == MatchEnd(s, i)
         IN  IF e > 0 THEN StripFrom(s, e + 1)
             ELSE <<s[i]>> \o StripFrom(s, i + 1)

\* (mutant) the terminating newline is cut off before the line is cleaned
removeANSIAndNewline(s) == StripFrom(SubSeq(s, 1, Len(s) - 1), 1)

removeANSIEscapeSequences(s) == StripFrom(s, 1)

(***************************************************************************)
(* strings.Contains and the pattern loop of expectAny                      *)
(***************************************************************************)
Contains(s, sub) ==
    \E i \in 0..(Len(s) - Len(sub)) :
        \A j \in 1..Len(sub) : s[i + j] = sub[j]

\* for index, expectedText := range expectedTexts: the first index (0-based)
\* whose text the line contains, or -1 when the loop falls through
RECURSIVE FirstMatchFrom(_, _, _)
FirstMatchFrom(line, pats, i) ==
    IF i > Len(pats) THEN -1
    ELSE IF Contains(line, pats[i]) THEN i - 1
    ELSE FirstMatchFrom(line, pats, i + 1)

\* (mutant) the loop does not stop at the first match: the last one wins
RECURSIVE LastMatchFrom(_, _, _)
LastMatchFrom(line, pats, i) ==
    IF i < 1 THEN -1
    ELSE IF Contains(line, pats[i]) THEN i - 1
    ELSE LastMatchFrom(line, pats, i - 1)

FirstMatchLastWins(line, pats) == LastMatchFrom(line, pats, Len(pats))

FirstMatch(line, pats) == FirstMatchFrom(line, pats, 1)

\* (mutant) expect compares the whole line with the text
OnLineWholeLine(kind, pats, line) ==
    IF kind = "expect"
    THEN IF line = pats[1] THEN <<TRUE, 0>> ELSE <<FALSE, 0>>
    ELSE LET i == FirstMatch(line, pats)
         IN  IF i >= 0 THEN <<TRUE, i>> ELSE <<FALSE, 0>>

\* what a wait does with a received line: <<TRUE, v>> to return v, <<FALSE, 0>> to loop
OnLine(kind, pats, line) ==
    IF kind = "expect"
    THEN IF Contains(line, pats[1]) THEN <<TRUE, 0>> ELSE <<FALSE, 0>>
    ELSE LET i == FirstMatch(line, pats)
         IN  IF i >= 0 THEN <<TRUE, i>> ELSE <<FALSE, 0>>

\* (mutant) the value the README gives for the timeout of expectAny
TimeoutValueOfReadme == 1

\* the value pushed on timeout
TimeoutValue == -1

(***************************************************************************)
(* The Lua script: a sequence of API calls.  L.OptInt(2, math.MaxInt)      *)
(* gives math.MaxInt when the timeout argument is omitted.                 *)
(***************************************************************************)
Spawn(p) == [op |-> "spawn", path |-> p, texts |-> <<>>, timeout |-> Int64(0)]
Expect(x, to) == [op |-> "expect", path |-> "", texts |-> <<x>>, timeout |-> to]
ExpectAny(xs, to) == [op |-> "expectAny", path |-> "", texts |-> xs, timeout |-> to]
Sleep == [op |-> "sleep", path |-> "", texts |-> <<>>, timeout |-> Int64(0)]

A == <<"a">>
B == <<"b">>

\* the scripts the program is run on, each a sequence of API calls
Scripts ==
    << <<Spawn("p1"), Expect(A, MathMaxInt), Expect(B, Int64(1))>>,
       <<Spawn("p1"), Sleep, ExpectAny(<<A, B>>, Int64(1)), Expect(A, Int64(0))>>,
       <<Spawn("p2"), ExpectAny(<<A, B>>, MathMaxInt), Sleep, Expect(A, Int64(1))>>,
       <<Spawn("p1"), Spawn("p2"), Sleep, ExpectAny(<<B, A>>, Int64(1)),
         ExpectAny(<<>>, Int64(0))>>,
       <<Spawn("p1"), Spawn("p1"), Expect(B, Int64(1))>>,
       <<Spawn("p1"), Spawn("p2"), Expect(B, Int64(1))>> >>

(***************************************************************************)
(* What the file system refuses in a run.  The calls of watchFileLines     *)
(* that can fail are fsnotify.NewWatcher ("watcher"), watcher.Add ("add")  *)
(* and os.Open ("open"); "error" is an error the watcher reports on        *)
(* watcher.Errors after a successful start.  tid is the tailer it happens  *)
(* to (in the order the tailers are started), 0 for none.                  *)
(***************************************************************************)
NoFault == [tid |-> 0, kind |-> "none"]
Fault(t, k) == [tid |-> t, kind |-> k]

\* the scripts run with the smaller number of bytes
ShortScripts == {5, 6}

\* the runs: a script and what fails while it runs
Runs ==
    { <<1, NoFault>>, <<2, NoFault>>, <<3, NoFault>>, <<4, NoFault>>,
      <<5, NoFault>>, <<6, NoFault>>,
      <<1, Fault(1, "open")>>, <<3, Fault(1, "add")>>,
      <<6, Fault(1, "open")>>, <<6, Fault(2, "watcher")>>,
      <<6, Fault(1, "error")>> }

(***************************************************************************)
(* Initial state: NewLineWatcher done, log files empty, no script call yet *)
(***************************************************************************)
Init ==
    /\ file = [p \in Paths |-> <<>>]
    /\ dispPc = "notrunning"
    /\ tailers = <<>>
    /\ sendq = <<>>
    /\ piped = {}
    /\ \E r \in Runs : prog = r[1] /\ fault = r[2]
    /\ ip = 0
    /\ scriptPc = "idle"
    /\ timer = "off"
    /\ parked = FALSE
    /\ ret = <<>>
    /\ ctxDone = FALSE
    /\ delivered = <<>>

TailerIds == 1..Len(tailers)

IsPrefix(s, t) == Len(s) <= Len(t) /\ SubSeq(t, 1, Len(s)) = s

\* the call in progress (or the last one completed), and the next one
Calls == Scripts[prog]
HasNext == ip < Len(Calls)
NextCall == Calls[ip + 1]
CurCall == Calls[ip]
waitKind == CurCall.op
patterns == CurCall.texts
timeoutArg == CurCall.timeout

(***************************************************************************)
(* lineWatcher.Watch(): starts the watchLatestLine goroutine               *)
(***************************************************************************)
Watch ==
    /\ dispPc = "notrunning"
    /\ dispPc' = "running"
    /\ UNCHANGED <<piped, file, tailers, sendq, prog, fault, ctxDone, ip, scriptPc, timer, parked, ret,
                   delivered>>

(***************************************************************************)
(* The session (tmux pipe-pane, `cat >> path`) appends one byte.  Every    *)
(* fsnotify watcher already added on the path gets a Write event.          *)
(***************************************************************************)
RECURSIVE SumLen(_)
SumLen(ps) ==
    IF ps = {} THEN 0
    ELSE LET q == CHOOSE x \in ps : TRUE IN Len(file[q]) + SumLen(ps \ {q})

TotalBytes == SumLen(Paths)

\* the number of bytes the log files hold in a run: at most MaxBytes, and
\* MaxBytesShort in the runs of the scripts ShortScripts
Budget == IF prog \in ShortScripts THEN MaxBytesShort ELSE MaxBytes

Notify(p) ==
    [t \in TailerIds |->
        IF tailers[t].path = p /\ tailers[t].watch
        THEN [tailers[t] EXCEPT !.evt = TRUE]
        ELSE tailers[t]]

WriteByte(p) ==
    /\ p \in piped
    /\ \E k \in FileScripts(p) :
          /\ Len(file[p]) < Len(k)
          /\ TotalBytes < Budget
          /\ IsPrefix(file[p], k)
          /\ file' = [file EXCEPT ![p] = Append(@, k[Len(file[p]) + 1])]
    /\ tailers' = Notify(p)
    /\ UNCHANGED <<piped, dispPc, sendq, prog, fault, ctxDone, ip, scriptPc, timer, parked, ret,
                   delivered>>

(***************************************************************************)
(* spawn -> Window.Start                                                   *)
(***************************************************************************)
\* the script spawns the window of path p again later on
SpawnedAgain(p) ==
    \E k \in (ip + 1)..Len(Calls) : Calls[k].op = "spawn" /\ Calls[k].path = p

\* The command of a window ends and tmux closes the window: its pipe ends
\* with it.  (A window that closes and is not spawned again is a session
\* that writes nothing more.)
WindowExit(p) ==
    /\ p \in piped
    /\ SpawnedAgain(p)
    /\ piped' = piped \ {p}
    /\ UNCHANGED <<file, dispPc, tailers, sendq, prog, fault, ctxDone, ip, scriptPc, timer,
                   parked, ret, delivered>>

\* tmux list-windows names the window: Start returns "window already
\* exists" and spawn raises the error, which ends the script
SpawnRejected ==
    /\ dispPc = "running"
    /\ scriptPc = "idle"
    /\ HasNext
    /\ NextCall.op = "spawn"
    /\ NextCall.path \in piped
    /\ ip' = ip + 1
    /\ scriptPc' = "raised"
    /\ ret' = <<>>
    /\ UNCHANGED <<piped, file, dispPc, tailers, sendq, prog, fault, ctxDone, timer, parked,
                   delivered>>

\* tmux new-window, then tmux pipe-pane `cat >> LogPath`: from here on the
\* session appends its output to the log file
CallSpawn ==
    /\ dispPc = "running"
    /\ scriptPc = "idle"
    /\ HasNext
    /\ NextCall.op = "spawn"
    /\ NextCall.path \notin piped
    /\ ip' = ip + 1
    /\ scriptPc' = "create"
    /\ piped' = piped \cup {NextCall.path}
    /\ ret' = <<>>
    /\ UNCHANGED <<file, dispPc, tailers, sendq, prog, fault, ctxDone, timer, parked, delivered>>

\* os.Create(w.LogPath()) truncates the file; then w.watcher.AddFilePath
\* starts its send `l.filePathCh <- filePath`
SpawnCreate ==
    /\ scriptPc = "create"
    /\ file' = [file EXCEPT ![CurCall.path] = <<>>]
    /\ tailers' = Notify(CurCall.path)
    /\ scriptPc' = "addfile"
    /\ UNCHANGED <<piped, dispPc, sendq, prog, fault, ctxDone, ip, timer, parked, ret, delivered>>

\* watchLatestLine receives the path and starts the tailer goroutine;
\* the send in AddFilePath completes and the script goes on.
NewTailer(p) ==
    [path |-> p, pc |-> "start", pos |-> 0, line |-> <<>>, evt |-> FALSE,
     watch |-> FALSE, buf |-> <<>>, got |-> <<>>,
     regLen |-> Len(file[p]), seekPos |-> 0]

\* (mutant) the dispatcher also serves the stream and takes no path while
\* a tailer is blocked handing over a line
DispatcherAcceptWhenQuiet ==
    /\ dispPc = "running"
    /\ scriptPc = "addfile"
    /\ sendq = <<>>
    /\ tailers' = Append(tailers, NewTailer(CurCall.path))
    /\ scriptPc' = "idle"
    /\ UNCHANGED <<piped, file, dispPc, sendq, prog, fault, ctxDone, ip, timer, parked, ret,
                   delivered>>

DispatcherAccept ==
    /\ dispPc = "running"
    /\ scriptPc = "addfile"
    /\ tailers' = Append(tailers, NewTailer(CurCall.path))
    /\ scriptPc' = "idle"
    /\ UNCHANGED <<piped, file, dispPc, sendq, prog, fault, ctxDone, ip, timer, parked, ret, delivered>>

(***************************************************************************)
(* watchFileLines                                                          *)
(***************************************************************************)
\* what fails for tailer t
Fails(t, kind) == fault.tid = t /\ fault.kind = kind

\* fsnotify.NewWatcher() fails and returns a nil watcher; the error is
\* dropped and watcher.Add is called on the nil pointer: the goroutine
\* panics and the Go runtime ends the process, every goroutine and the
\* script with it.
Dead(ts) == [i \in DOMAIN ts |-> [ts[i] EXCEPT !.pc = "dead", !.watch = FALSE, !.evt = FALSE]]

TailerNilWatcher(t) ==
    /\ tailers[t].pc = "start"
    /\ Fails(t, "watcher")
    /\ tailers' = Dead(tailers)
    /\ dispPc' = "dead"
    /\ scriptPc' = "dead"
    /\ sendq' = <<>>
    /\ timer' = "off"
    /\ parked' = FALSE
    /\ UNCHANGED <<piped, file, prog, fault, ctxDone, ip, ret, delivered>>

\* fsnotify.NewWatcher(); watcher.Add(filePath), whose error is dropped:
\* when it fails the tailer goes on without a watch on the file
TailerAddWatch(t) ==
    /\ tailers[t].pc = "start"
    /\ ~Fails(t, "watcher")
    /\ tailers' = [tailers EXCEPT ![t].pc = "added",
                                  ![t].watch = ~Fails(t, "add")]
    /\ UNCHANGED <<piped, file, dispPc, sendq, prog, fault, ctxDone, ip, scriptPc, timer, parked, ret,
                   delivered>>

\* os.Open(filePath); file.Seek(0, io.SeekEnd); bufio.NewReader(file)
SeekEnd(t) == Len(file[tailers[t].path])

\* the tailer returns: the deferred watcher.Close() and file.Close() run,
\* the error goes to `_ = l.watchFileLines(ctx, p)`
Returned(tl) == [tl EXCEPT !.pc = "returned", !.watch = FALSE, !.evt = FALSE]

\* os.Open fails and returns a nil file; the error is dropped, Seek on the
\* nil file returns an error and watchFileLines returns it
TailerOpenFails(t) ==
    /\ tailers[t].pc = "added"
    /\ Fails(t, "open")
    /\ tailers' = [tailers EXCEPT ![t] = Returned(@)]
    /\ UNCHANGED <<piped, file, dispPc, sendq, prog, fault, ctxDone, ip, scriptPc, timer,
                   parked, ret, delivered>>

\* case err := <-watcher.Errors: return err
TailerWatchError(t) ==
    /\ tailers[t].pc = "select"
    /\ Fails(t, "error")
    /\ tailers' = [tailers EXCEPT ![t] = Returned(@)]
    /\ UNCHANGED <<piped, file, dispPc, sendq, prog, fault, ctxDone, ip, scriptPc, timer,
                   parked, ret, delivered>>

TailerSeek(t) ==
    /\ tailers[t].pc = "added"
    /\ ~Fails(t, "open")
    /\ tailers' = [tailers EXCEPT ![t].pc = "select",
                                  ![t].pos = SeekEnd(t),
                                  ![t].seekPos = SeekEnd(t)]
    /\ UNCHANGED <<piped, file, dispPc, sendq, prog, fault, ctxDone, ip, scriptPc, timer, parked, ret,
                   delivered>>

\* case event := <-watcher.Events, with event.Op&fsnotify.Write set
TailerEvent(t) ==
    /\ tailers[t].pc = "select"
    /\ tailers[t].evt
    /\ tailers' = [tailers EXCEPT ![t].pc = "read", ![t].evt = FALSE]
    /\ UNCHANGED <<piped, file, dispPc, sendq, prog, fault, ctxDone, ip, scriptPc, timer, parked, ret,
                   delivered>>

\* index of the first '\n' of f after offset pos, or 0
RECURSIVE NextLF(_, _)
NextLF(f, pos) ==
    IF pos >= Len(f) THEN 0
    ELSE IF f[pos + 1] = LF THEN pos + 1
    ELSE NextLF(f, pos + 1)

\* What the ReadByte calls of tailer tl can return now: the bytes left in
\* the bufio.Reader's buffer, then the bytes of the file from the offset of
\* the open file on (none when the file ends before that offset).  pos is
\* the offset of the next byte ReadByte returns; the buffer is filled, with
\* all the file holds, when ReadByte finds it empty.
View(tl) ==
    tl.buf \o SubSeq(file[tl.path], tl.pos + Len(tl.buf) + 1, Len(file[tl.path]))

\* the buffer after k bytes of View(tl) were read
BufAfter(tl, k) ==
    IF k <= Len(tl.buf) THEN SubSeq(tl.buf, k + 1, Len(tl.buf))
    ELSE SubSeq(View(tl), k + 1, Len(View(tl)))

\* (mutant) the line buffer does not outlive the handling of one event
TailerReadEOFDropsFragment(t) ==
    LET tl == tailers[t]
        v  == View(tl)
    IN  /\ tl.pc = "read"
        /\ NextLF(v, 0) = 0
        /\ tailers' = [tailers EXCEPT
                         ![t].pc = "select",
                         ![t].pos = tl.pos + Len(v),
                         ![t].buf = <<>>,
                         ![t].got = tl.got \o v,
                         ![t].line = <<>>]
        /\ UNCHANGED <<piped, file, dispPc, sendq, prog, fault, ctxDone, ip, scriptPc, timer,
                       parked, ret, delivered>>

\* The inner loop with no '\n' left to read: every ReadByte result is
\* appended to line until ReadByte fails at end of file, then break.
TailerReadEOF(t) ==
    LET tl == tailers[t]
        v  == View(tl)
    IN  /\ tl.pc = "read"
        /\ NextLF(v, 0) = 0
        /\ tailers' = [tailers EXCEPT
                         ![t].pc = "select",
                         ![t].pos = tl.pos + Len(v),
                         ![t].buf = <<>>,
                         ![t].got = tl.got \o v,
                         ![t].line = tl.line \o v]
        /\ UNCHANGED <<piped, file, dispPc, sendq, prog, fault, ctxDone, ip, scriptPc, timer, parked, ret,
                       delivered>>

\* the record of a received line kept in the history
Received(t, raw, endPos) ==
    [tid |-> t, end |-> endPos, raw |-> raw,
     text |-> removeANSIEscapeSequences(raw), call |-> ip]

\* line.Reset() once the send has completed; the inner loop goes on
AfterSend(tl) == [tl EXCEPT !.pc = "read", !.line = <<>>]

\* (mutant) the send does not block, as on a buffered channel
BlockedGoesOn(tl, e, raw) == [tl EXCEPT !.pos = e, !.line = <<>>, !.pc = "read"]

\* the tailer has read up to offset e and is blocked in the send of raw:
\* recvLineCh is unbuffered, the send completes only when a wait receives
Blocked(tl, e, raw) == [tl EXCEPT !.pos = e, !.line = raw, !.pc = "send"]

\* (mutant) the senders waiting on the channel are kept as a stack
EnqueueFront(q, t) == <<t>> \o q

\* a sender that finds no receiver waits at the end of the channel's queue
Enqueue(q, t) == Append(q, t)

\* (mutant) the received value stays available to the next receive
DequeueKeeps(q) == q

\* a receive takes the value of the first blocked sender off the channel
Dequeue(q) == Tail(q)

\* the receiving wait handles the line: return the value or loop
Handle(text) ==
    LET r == OnLine(waitKind, patterns, text)
    IN  /\ parked' = FALSE
        /\ IF r[1]
           THEN /\ ret' = <<r[2]>>
                /\ scriptPc' = "idle"
                /\ timer' = "off"
           ELSE /\ UNCHANGED <<ret, scriptPc, timer>>

\* The inner loop up to the next '\n': the bytes are appended to line, then
\* `l.recvLineCh <- removeANSIEscapeSequences(line.String())`.
\* With the script parked in a wait's select the value is handed over at
\* once; otherwise the tailer blocks in the send, queued on the channel.
TailerReadLine(t) ==
    LET tl  == tailers[t]
        v   == View(tl)
        k   == NextLF(v, 0)
        e   == tl.pos + k
        raw == tl.line \o SubSeq(v, 1, k)
        rd  == [tl EXCEPT !.buf = BufAfter(tl, k), !.got = tl.got \o SubSeq(v, 1, k)]
    IN  /\ tl.pc = "read"
        /\ k > 0
        /\ IF scriptPc = "wait" /\ parked
           THEN /\ tailers' = [tailers EXCEPT
                                 ![t] = AfterSend([rd EXCEPT !.pos = e, !.line = raw])]
                /\ delivered' = Append(delivered, Received(t, raw, e))
                /\ Handle(removeANSIEscapeSequences(raw))
                /\ UNCHANGED sendq
           ELSE /\ tailers' = [tailers EXCEPT ![t] = Blocked(rd, e, raw)]
                /\ sendq' = Enqueue(sendq, t)
                /\ UNCHANGED <<delivered, parked, ret, scriptPc, timer>>
        /\ UNCHANGED <<piped, file, dispPc, prog, fault, ctxDone, ip>>

(***************************************************************************)
(* expect / expectAny                                                      *)
(***************************************************************************)
StartWait(kind) ==
    /\ dispPc = "running"
    /\ scriptPc = "idle"
    /\ HasNext
    /\ NextCall.op = kind
    /\ ip' = ip + 1
    /\ scriptPc' = "wait"
    /\ timer' = TimeAfter(DurationOf(NextCall.timeout))
    /\ parked' = FALSE
    /\ ret' = <<>>
    /\ UNCHANGED <<piped, file, dispPc, tailers, sendq, prog, fault, ctxDone, delivered>>

CallExpect == StartWait("expect")

CallExpectAny == StartWait("expectAny")

\* select: case line := <-watcher.GetLineCh(), a sender is queued on the channel
WaitRecv ==
    /\ scriptPc = "wait"
    /\ ~parked
    /\ sendq # <<>>
    /\ LET t  == Head(sendq)
           tl == tailers[t]
       IN  /\ sendq' = Dequeue(sendq)
           /\ tailers' = [tailers EXCEPT ![t] = AfterSend(tl)]
           /\ delivered' = Append(delivered, Received(t, tl.line, tl.pos))
           /\ Handle(removeANSIEscapeSequences(tl.line))
    /\ UNCHANGED <<piped, file, dispPc, prog, fault, ctxDone, ip>>

\* select: case <-timeoutCh, the timer channel is ready
WaitTimeout ==
    /\ scriptPc = "wait"
    /\ ~parked
    /\ timer = "fired"
    /\ ret' = <<TimeoutValue>>
    /\ scriptPc' = "idle"
    /\ timer' = "off"
    /\ UNCHANGED <<piped, file, dispPc, tailers, sendq, prog, fault, ctxDone, ip, parked, delivered>>

\* select: no case is ready, the goroutine parks on both channels
WaitPark ==
    /\ scriptPc = "wait"
    /\ ~parked
    /\ sendq = <<>>
    /\ timer # "fired"
    /\ parked' = TRUE
    /\ UNCHANGED <<piped, file, dispPc, tailers, sendq, prog, fault, ctxDone, ip, scriptPc, timer, ret,
                   delivered>>

\* the duration elapses: the runtime sends on timeoutCh; a goroutine parked
\* in the select is woken on the timeout case
TimerFire ==
    /\ timer = "armed"
    /\ IF parked
       THEN /\ ret' = <<TimeoutValue>>
            /\ scriptPc' = "idle"
            /\ timer' = "off"
            /\ parked' = FALSE
       ELSE /\ timer' = "fired"
            /\ UNCHANGED <<ret, scriptPc, parked>>
    /\ UNCHANGED <<piped, file, dispPc, tailers, sendq, prog, fault, ctxDone, ip, delivered>>

(***************************************************************************)
(* sleep(seconds): time.Sleep                                              *)
(***************************************************************************)
CallSleep ==
    /\ dispPc = "running"
    /\ scriptPc = "idle"
    /\ HasNext
    /\ NextCall.op = "sleep"
    /\ ip' = ip + 1
    /\ scriptPc' = "sleep"
    /\ ret' = <<>>
    /\ UNCHANGED <<piped, file, dispPc, tailers, sendq, prog, fault, ctxDone, timer, parked, delivered>>

SleepReturn ==
    /\ scriptPc = "sleep"
    /\ scriptPc' = "idle"
    /\ UNCHANGED <<piped, file, dispPc, tailers, sendq, prog, fault, ctxDone, ip, timer, parked, ret,
                   delivered>>

(***************************************************************************)
(* main: L.DoString has returned (the script ended, or spawn raised an     *)
(* error) and the deferred cancel() of the context given to NewLineWatcher *)
(* runs.  watchLatestLine selects on the Done channel of a context of its  *)
(* own, made from context.Background() and cancelled only by its deferred  *)
(* cancel(), that is after it returned; watchFileLines gets that context.  *)
(* l.ctx is read nowhere.                                                  *)
(***************************************************************************)
ScriptEnded == (scriptPc = "idle" /\ ~HasNext) \/ scriptPc = "raised"

Cancel ==
    /\ ScriptEnded
    /\ ~ctxDone
    /\ ctxDone' = TRUE
    /\ UNCHANGED <<piped, file, dispPc, tailers, sendq, prog, fault, ip, scriptPc,
                   timer, parked, ret, delivered>>

Next ==
    \/ Watch
    \/ \E p \in Paths : WriteByte(p)
    \/ \E p \in Paths : WindowExit(p)
    \/ SpawnRejected
    \/ CallSpawn
    \/ SpawnCreate
    \/ DispatcherAccept
    \/ \E t \in TailerIds : TailerNilWatcher(t)
    \/ \E t \in TailerIds : TailerAddWatch(t)
    \/ \E t \in TailerIds : TailerOpenFails(t)
    \/ \E t \in TailerIds : TailerWatchError(t)
    \/ \E t \in TailerIds : TailerSeek(t)
    \/ \E t \in TailerIds : TailerEvent(t)
    \/ \E t \in TailerIds : TailerReadEOF(t)
    \/ \E t \in TailerIds : TailerReadLine(t)
    \/ CallExpect
    \/ CallExpectAny
    \/ WaitRecv
    \/ WaitTimeout
    \/ WaitPark
    \/ TimerFire
    \/ CallSleep
    \/ SleepReturn
    \/ Cancel

Spec == Init /\ [][Next]_vars

(***************************************************************************)
(* Vocabulary of the properties                                            *)
(***************************************************************************)
\* the complete lines of a byte sequence, each with its '\n'
RECURSIVE SplitLines(_, _)
SplitLines(bytes, from) ==
    LET e == NextLF(bytes, from)
    IN  IF e = 0 THEN <<>>
        ELSE <<SubSeq(bytes, from + 1, e)>> \o SplitLines(bytes, e)

\* total length of the sequences of ls
RECURSIVE SumLenSeq(_)
SumLenSeq(ls) == IF ls = <<>> THEN 0 ELSE Len(Head(ls)) + SumLenSeq(Tail(ls))

\* the same lines as the stream should carry them
CleanLines(bytes, from) ==
    LET ls == SplitLines(bytes, from)
    IN  [i \in 1..Len(ls) |-> removeANSIEscapeSequences(ls[i])]

\* the lines received from tailer t so far, in the order of their receipt
RECURSIVE TextsOf(_, _)
TextsOf(t, hist) ==
    IF hist = <<>> THEN <<>>
    ELSE (IF Head(hist).tid = t THEN <<Head(hist).text>> ELSE <<>>)
         \o TextsOf(t, Tail(hist))

\* the complete lines appended to t's file since AddFilePath returned
AppendedSinceRegistration(t) ==
    CleanLines(file[tailers[t].path], tailers[t].regLen)

\* the tailer has done its Seek and is in its loop
Tailing(t) == tailers[t].pc \in {"select", "read", "send"}

\* the bytes tailer t has read from its file since its Seek
Consumed(t) == tailers[t].got

\* the window of path p was spawned once so far: its log was not truncated
\* under a tailer
SpawnedOnce(p) ==
    Cardinality({k \in 1..ip : Calls[k].op = "spawn" /\ Calls[k].path = p}) = 1

\* C1: for a single registered source, the lines handed out through
\* GetLineCh are at every moment a prefix of the complete lines appended to
\* the file after registration, escape-cleaned, in the same order.
C1_PrefixOfAppended ==
    Len(tailers) = 1 =>
        IsPrefix(TextsOf(1, delivered), AppendedSinceRegistration(1))

\* C2: the offset watermark of a tailer is the end-of-file at registration
\* time (when AddFilePath returned), so that no line appended after
\* registration lies before it.
C2_WatermarkAtRegistration ==
    \A t \in TailerIds : Tailing(t) => tailers[t].seekPos = tailers[t].regLen

\* What does hold: every tailer hands over, in order and without gap or
\* repetition, the lines that follow the offset its Seek found.
DeliversFromSeekOffset ==
    \A t \in TailerIds :
        (Tailing(t) /\ SpawnedOnce(tailers[t].path)) =>
            IsPrefix(TextsOf(t, delivered),
                     CleanLines(file[tailers[t].path], tailers[t].seekPos))

\* C3: with several sources registered, the lines received are an
\* interleaving of the per-source sequences of lines appended since
\* registration: the lines received from each source are a prefix of that
\* source's sequence.
C3_ShuffleOfSources ==
    Len(tailers) > 1 =>
        \A t \in TailerIds :
            IsPrefix(TextsOf(t, delivered), AppendedSinceRegistration(t))

\* the records of the lines received by call k
RecsOfCall(k) == SelectSeq(delivered, LAMBDA r : r.call = k)

LastDelivered == delivered[Len(delivered)]

\* the bytes tailer t has still to turn into lines of the stream: what it
\* holds plus what it has not read; before its Seek, everything appended
\* since registration
Owed(t) ==
    LET tl == tailers[t]
        f  == file[tl.path]
    IN  IF Tailing(t) THEN tl.line \o View(tl)
        ELSE SubSeq(f, tl.regLen + 1, Len(f))

\* a tailing source has produced a complete line containing x that no wait
\* has received yet
UnreceivedHit(x) ==
    \E t \in TailerIds :
        /\ Tailing(t)
        /\ LET ls == CleanLines(Owed(t), 0)
           IN  \E i \in 1..Len(ls) : Contains(ls[i], x)

\* C4 (as claimed): expect returns the timeout value only if no line
\* containing X was produced before the timeout elapsed: when the timer of
\* a blocked expect fires, no source has produced a line containing X.
C4_TimeoutOnlyIfNothingProduced ==
    [][(/\ ip > 0
        /\ scriptPc = "wait"
        /\ waitKind = "expect"
        /\ timer = "armed"
        /\ ret' = <<TimeoutValue>>) => ~UnreceivedHit(patterns[1])]_vars

\* C4 (amended): expect returns 0 exactly on receiving a line that contains
\* X, and -1 only when its timer has fired, without receiving a line in
\* that step; it returns nothing else.
C4_ExpectResult ==
    [][(ip > 0 /\ scriptPc = "wait" /\ waitKind = "expect") =>
          /\ ret' = <<0>> =>
                /\ Len(delivered') = Len(delivered) + 1
                /\ Contains(delivered'[Len(delivered')].text, patterns[1])
          /\ ret' = <<TimeoutValue>> =>
                /\ delivered' = delivered
                /\ timer = "fired" \/ (timer = "armed" /\ parked)
          /\ (/\ delivered' # delivered
              /\ Contains(delivered'[Len(delivered')].text, patterns[1]))
                => ret' = <<0>>
          /\ scriptPc' = "idle" => ret' \in {<<0>>, <<TimeoutValue>>}]_vars

\* expect with a timeout of one second returned 0 on a line containing X
C4_Witness ==
    /\ ip > 0
    /\ waitKind = "expect"
    /\ timeoutArg = Int64(1)
    /\ ret = <<0>>
    /\ Len(RecsOfCall(ip)) > 0
    /\ Contains(LastDelivered.text, patterns[1])

\* C5: a wait called without a timeout argument never returns the timeout
\* value.
C5_NoTimeoutWithoutArgument ==
    (ip > 0 /\ waitKind \in {"expect", "expectAny"} /\ timeoutArg = MathMaxInt)
        => ret # <<TimeoutValue>>

NoPatternIn(text, pats) == \A j \in 1..Len(pats) : ~Contains(text, pats[j])

\* C6: expectAny discards the lines it receives that contain none of the
\* patterns and returns, for the first received line that contains one, the
\* lowest 0-based index of a pattern contained in that line.
C6_ExpectAnyIndex ==
    (ip > 0 /\ waitKind = "expectAny") =>
        LET mine == RecsOfCall(ip)
            n    == Len(mine)
        IN  /\ (ret = <<>> \/ ret = <<TimeoutValue>>) =>
                  \A i \in 1..n : NoPatternIn(mine[i].text, patterns)
            /\ (ret # <<>> /\ ret # <<TimeoutValue>>) =>
                  /\ n > 0
                  /\ ret[1] >= 0
                  /\ ret[1] < Len(patterns)
                  /\ Contains(mine[n].text, patterns[ret[1] + 1])
                  /\ \A j \in 1..ret[1] : ~Contains(mine[n].text, patterns[j])
                  /\ \A i \in 1..(n - 1) : NoPatternIn(mine[i].text, patterns)

\* expectAny({"a","b"}) returned 1 on a line containing "b", after
\* discarding a line that contains neither
C6_Witness ==
    /\ ip > 0
    /\ waitKind = "expectAny"
    /\ patterns = <<A, B>>
    /\ ret = <<1>>
    /\ Len(RecsOfCall(ip)) > 1
    /\ Contains(LastDelivered.text, B)
    /\ ~Contains(LastDelivered.text, A)

\* Time passes, so an armed timer fires; the select of a wait picks among
\* its ready cases at random, so a ready timeout case is taken in the end.
FairSpec == Spec /\ WF_vars(TimerFire) /\ WF_vars(WaitTimeout)

C8_ConsumedOnce ==
    \A i, j \in 1..Len(delivered) :
        i < j => ~(/\ delivered[i].tid = delivered[j].tid
                   /\ delivered[i].end = delivered[j].end)

\* two successive lines of one source were received by two different calls
C8_Witness ==
    \E i, j \in 1..Len(delivered) :
        /\ i < j
        /\ delivered[i].tid = delivered[j].tid
        /\ delivered[i].call # delivered[j].call

\* C9: while the script is not inside a wait call (sleeping, or between
\* calls) nothing is received from the stream and no registered source
\* loses a byte it has still to deliver: what each tailer owes only grows.
C9_SleepLosesNothing ==
    [][(scriptPc # "wait" /\ scriptPc' # "wait") =>
          /\ delivered' = delivered
          /\ \A t \in TailerIds : IsPrefix(Owed(t), Owed(t)')]_vars

LinesRead(t) == Len(SplitLines(Consumed(t), 0))

RECURSIVE RawsOf(_, _)
RawsOf(t, hist) ==
    IF hist = <<>> THEN <<>>
    ELSE (IF Head(hist).tid = t THEN <<Head(hist).raw>> ELSE <<>>)
         \o RawsOf(t, Tail(hist))

\* s without its last byte
Chop(s) == SubSeq(s, 1, Len(s) - 1)

\* number of '\n' in s
RECURSIVE CountLF(_)
CountLF(s) ==
    IF s = <<>> THEN 0 ELSE (IF Head(s) = LF THEN 1 ELSE 0) + CountLF(Tail(s))

\* the goroutine of tailer t has ended
Stopped(t) == tailers[t].pc \in {"returned", "dead"}

\* C11: once the context given to NewLineWatcher is cancelled, every tailer
\* stops and the dispatcher stops serving: when nothing more can happen
\* after the cancellation, no tailer is left in its loop, in a read or in
\* the handoff of a line, and the dispatcher has ended.
C11_CancelStopsAll ==
    (ctxDone /\ ~ENABLED Next) =>
        /\ \A t \in TailerIds : Stopped(t)
        /\ dispPc \notin {"notrunning", "running"}

\* The dispatcher goroutine gets to run: a receive on filePathCh that stays
\* possible is made.
FairDispatch == Spec /\ WF_vars(DispatcherAccept)

\* C12: AddFilePath returns once the dispatcher is running, whatever the
\* tailers are doing (or the process has ended): in every state the
\* dispatcher can take the path a pending AddFilePath sends, so the send on
\* filePathCh does not stay pending; and when it returns the new tailer has
\* only been started, it has not watched, opened or sought its file, and no
\* other tailer and no blocked handoff was touched.
C12_AddFilePathReturns ==
    /\ [](scriptPc = "addfile" => ENABLED DispatcherAccept)
    /\ (scriptPc = "addfile") ~> (scriptPc # "addfile")
    /\ [][(scriptPc = "addfile" /\ scriptPc' = "idle") =>
             /\ Len(tailers') = Len(tailers) + 1
             /\ tailers'[Len(tailers')].pc = "start"
             /\ \A t \in TailerIds : tailers'[t] = tailers[t]
             /\ sendq' = sendq]_vars

\* AddFilePath has returned for a second source, whose tailer has not begun,
\* while the first tailer is blocked handing over a line nobody receives
C12_Witness ==
    /\ Len(tailers) = 2
    /\ scriptPc = "idle"
    /\ tailers[2].pc = "start"
    /\ tailers[1].pc = "send"
    /\ sendq = <<1>>

\* tailer t could not open its file (os.Open failed) or establish its
\* watch (watcher.Add failed)
StartFailed(t) ==
    \/ Fails(t, "open") /\ tailers[t].pc = "returned"
    \/ Fails(t, "add") /\ tailers[t].pc \notin {"start", "dead"}

\* the spawn that registered tailer t raised an error to the script
Reported(t) ==
    /\ scriptPc = "raised"
    /\ CurCall.op = "spawn"
    /\ CurCall.path = tailers[t].path

\* C13: a tailer whose file cannot be opened or whose watch cannot be
\* established does not start; by the end of the script the failure was
\* reported to the caller that registered the source, and no line was
\* received from that source.
C13_StartFailureReported ==
    \A t \in TailerIds :
        (StartFailed(t) /\ ScriptEnded) =>
            /\ ~Tailing(t)
            /\ Reported(t)
            /\ RawsOf(t, delivered) = <<>>

\* the failure of tailer t has happened: a failure to start (of os.Open,
\* watcher.Add or fsnotify.NewWatcher) or a watch error after the start
Failed(t) ==
    \/ StartFailed(t)
    \/ Fails(t, "watcher") /\ tailers[t].pc = "dead"
    \/ Fails(t, "error") /\ tailers[t].pc = "returned"

\* C14: the failure of one source ends that source's tailer only: the
\* dispatcher goes on accepting registrations, no other tailer has ended,
\* and the lines received from every other source are, in order, the first
\* lines that its tailer read.
C14_FailureIsolated ==
    \A t \in TailerIds :
        Failed(t) =>
            /\ dispPc = "running"
            /\ \A u \in TailerIds \ {t} :
                  /\ ~Stopped(u)
                  /\ IsPrefix(RawsOf(u, delivered), SplitLines(Consumed(u), 0))

\* C15 (as claimed): the content of every delivered line is the raw line
\* with its ANSI control sequences removed and without its terminating
\* newline.
C15_NewlineExcluded ==
    \A i \in 1..Len(delivered) :
        delivered[i].text = removeANSIEscapeSequences(Chop(delivered[i].raw))

\* C15 (amended): the content of every delivered line is the raw line with
\* its ANSI control sequences removed and its terminating newline kept: it
\* ends with the line's only '\n', a raw line without an escape byte is
\* delivered unchanged, and the raw bytes ESC [ m b '\n' are delivered as
\* exactly b '\n'.
C15_NewlineKept ==
    \A i \in 1..Len(delivered) :
        LET r == delivered[i]
        IN  /\ r.text # <<>>
            /\ r.text[Len(r.text)] = LF
            /\ CountLF(r.text) = 1
            /\ (\A j \in 1..Len(r.raw) : r.raw[j] # ESC) => r.text = r.raw
            /\ r.raw = <<ESC, "[", "m", "b", LF>> => r.text = <<"b", LF>>

\* the raw line ESC [ m b '\n' was received, as b '\n'
C15_Witness ==
    \E i \in 1..Len(delivered) :
        /\ delivered[i].raw = <<ESC, "[", "m", "b", LF>>
        /\ delivered[i].text = <<"b", LF>>

\* C16: a tailer publishes a line only once it has read its '\n'.  The
\* bytes a tailer has read since its Seek are, in order, the lines received
\* from it, then the line it is blocked handing over (if any), then the
\* fragment it holds; every one of these lines ends with its only '\n' and
\* the held fragment contains none.
C16_OnlyCompleteLines ==
    \A t \in TailerIds :
        Tailing(t) =>
            LET tl    == tailers[t]
                lines == SplitLines(Consumed(t), 0)
                rest  == SubSeq(Consumed(t), SumLenSeq(lines) + 1, Len(Consumed(t)))
                out   == RawsOf(t, delivered)
            IN  /\ CountLF(rest) = 0
                /\ \A i \in 1..Len(out) :
                      CountLF(out[i]) = 1 /\ out[i][Len(out[i])] = LF
                /\ IF tl.pc = "send"
                   THEN /\ lines = Append(out, tl.line)
                        /\ rest = <<>>
                   ELSE /\ lines = out
                        /\ tl.line = rest

\* a tailer that has already had a line received is back in its select,
\* holding an unterminated fragment
C16_Witness ==
    \E t \in TailerIds :
        /\ tailers[t].pc = "select"
        /\ ~tailers[t].evt
        /\ tailers[t].line # <<>>
        /\ RawsOf(t, delivered) # <<>>

\* C17: a source is registered once.  No two tailers that are running tail
\* the same file path, and no line of a file is received twice: two
\* receipts of a line of the same path that ends at the same offset are the
\* same receipt.
C17_RegisteredOnce ==
    /\ \A t, u \in TailerIds :
          (t # u /\ ~Stopped(t) /\ ~Stopped(u)) => tailers[t].path # tailers[u].path
    /\ \A i, j \in 1..Len(delivered) :
          (/\ i < j
           /\ tailers[delivered[i].tid].path = tailers[delivered[j].tid].path
           /\ delivered[i].end = delivered[j].end) => FALSE

C19_NoLineAfterDeadline ==
    [][(/\ ip > 0
        /\ scriptPc = "wait"
        /\ timeoutArg # MathMaxInt
        /\ timer = "fired") =>
          /\ delivered' = delivered
          /\ scriptPc' = "idle" => ret' = <<TimeoutValue>>]_vars

\* position of tailer t in the channel's queue of blocked senders, or 0
Pos(t, q) == IF \E i \in 1..Len(q) : q[i] = t
             THEN CHOOSE i \in 1..Len(q) : q[i] = t
             ELSE 0

====
